---- MODULE Spec2Model ----
(***************************************************************************)
(* Model of the 2.5D sprite runtime in src/main.cpp: the depth-sorted      *)
(* sprite store (std::set<GameSprite>), the player controller              *)
(* (handleEvents), the NPC behaviour engine (updateNPCs), the renderer and *)
(* the main loop.                                                          *)
(*                                                                         *)
(* Number representation.  Wall-clock time is held in integer              *)
(* milliseconds: the variable deltaTime is the C++ deltaTime (seconds)     *)
(* times MsPerSec.  The float field animAccumulator keeps the unit of the  *)
(* path that writes it.  The player path stores milliseconds: the field is *)
(* held times AccUnit, and for frames of whole milliseconds every float    *)
(* the path computes is a whole number below 2^24, hence exact.  The NPC   *)
(* path stores seconds: the field is held times SecUnit = 2^30, which      *)
(* represents exactly every float in [2^-7, 2), and the sum is rounded to  *)
(* a 24 bit significand as the float store rounds it (F32Sum).             *)
(* globalScale is held times ScaleUnit.  For positions, the wander timer   *)
(* and the scale, float rounding error below the unit is not modelled.     *)
(***************************************************************************)
EXTENDS Integers, Sequences, FiniteSets, TLC

VARIABLES
    gameSprites,      \* std::set<GameSprite>, as the sequence its iteration yields
    npcStates,        \* std::unordered_map<std::string, NPCState>
    animationMap,     \* std::unordered_map<std::string, animation>
    textureMap,       \* std::unordered_map<std::string, SDL_Texture*>, with textureFootMap
    level,            \* the map file last given to loadLevel
    backgroundOffset, \* SDL_Point, the negated camera position
    globalScale,      \* float, times ScaleUnit
    PLAYER_SPEED,     \* float, always integer valued
    g_playerFacing,   \* PlayerFacing
    g_lastVertical,   \* 'N' or 'S'
    deltaTime,        \* double seconds, times MsPerSec
    keyState,         \* SDL's keyboard state when handleEvents was last called
    eventQueue,       \* SDL's pending events when handleEvents was last called
    running,          \* main's loop flag
    pc,               \* position of main inside the loop
    frame,            \* number of loop iterations started
    drawn             \* the draw calls of the last render pass, in order

vars == <<gameSprites, npcStates, animationMap, textureMap, level, backgroundOffset, globalScale,
          PLAYER_SPEED, g_playerFacing, g_lastVertical, deltaTime, keyState,
          eventQueue, running, pc, frame, drawn>>

----------------------------------------------------------------------------
(* Program constants *)

SCREEN_WIDTH == 800
SCREEN_HEIGHT == 600
MAP_WIDTH == 1600
MAP_HEIGHT == 1200
NPC_SPEED == 55
DETECTION_RADIUS == 60
WANDER_CHANGE_TIME == 2
FOLLOW_MIN_DIST == 5
SLOW_DOWN_DIST == 50
INITIAL_PLAYER_SPEED == 33
INITIAL_SCALE == 3
MAX_SCALE == 5

(* Units of the integer representation *)
MsPerSec == 1000
AccUnit == 1000
SecUnit == 2^30
ScaleUnit == 10000
MIN_SCALE_X == ScaleUnit \div 10       \* 0.1f
MAX_SCALE_X == MAX_SCALE * ScaleUnit    \* 5.0f

(* Bounds of the exploration *)
MaxFrames == 2
MaxRepeat == 18

----------------------------------------------------------------------------
(* Arithmetic helpers *)

Abs(a) == IF a < 0 THEN -a ELSE a

Sign(a) == IF a < 0 THEN -1 ELSE IF a > 0 THEN 1 ELSE 0

Min2(a, b) == IF a < b THEN a ELSE b

Max2(a, b) == IF a > b THEN a ELSE b

\* C++ integer division and static_cast<int>: truncation toward zero (b > 0)
TruncDiv(a, b) == IF a >= 0 THEN a \div b ELSE -((-a) \div b)

\* std::round of the quotient a / b: halves round away from zero (b > 0)
RoundDiv(a, b) ==
    IF a >= 0 THEN (2 * a + b) \div (2 * b) ELSE -((2 * (-a) + b) \div (2 * b))

RECURSIVE Gcd(_, _)
Gcd(a, b) == IF b = 0 THEN a ELSE Gcd(b, a % b)

\* d * sqrt(q) <= n, for naturals d, q, n; the fraction n/d is reduced first
\* so that the squares stay inside 32 bits
SqrtLeq(d, q, n) ==
    IF d = 0 THEN TRUE
    ELSE LET g == Gcd(n, d)
             nn == n \div g
             dd == d \div g
         IN  dd * dd * q <= nn * nn

\* d * sqrt(q) < n
SqrtLess(d, q, n) ==
    IF n = 0 THEN FALSE
    ELSE IF d = 0 THEN TRUE
    ELSE LET g == Gcd(n, d)
             nn == n \div g
             dd == d \div g
         IN  dd * dd * q < nn * nn

----------------------------------------------------------------------------
(* Sprite names and their std::string order *)

NameOrder == <<"aaron", "background", "mushroom", "reyna", "rock">>

NameRank(n) == CHOOSE i \in 1..Len(NameOrder) : NameOrder[i] = n

StrLess(a, b) == NameRank(a) < NameRank(b)

----------------------------------------------------------------------------
(* GameSprite::operator< and the std::set operations built on it *)

FootBottom(s) == s.footRect.y + s.footRect.h

\* mutant: depth is taken from the top of the image
LessByTop(a, b) ==
    IF a.spriteName = "background" THEN TRUE
    ELSE IF b.spriteName = "background" THEN FALSE
    ELSE IF a.rect.y # b.rect.y THEN a.rect.y < b.rect.y
    ELSE IF a.footRect.x # b.footRect.x THEN a.footRect.x < b.footRect.x
    ELSE StrLess(a.spriteName, b.spriteName)

Less(a, b) ==
    IF a.spriteName = "background" THEN TRUE
    ELSE IF b.spriteName = "background" THEN FALSE
    ELSE IF FootBottom(a) # FootBottom(b) THEN FootBottom(a) < FootBottom(b)
    ELSE IF a.footRect.x # b.footRect.x THEN a.footRect.x < b.footRect.x
    ELSE StrLess(a.spriteName, b.spriteName)

\* the equivalence std::set uses to reject duplicates
Equivalent(a, b) == ~Less(a, b) /\ ~Less(b, a)

\* std::set::insert: no effect when an equivalent element is present
SetInsert(S, s) ==
    IF \E i \in 1..Len(S) : Equivalent(S[i], s) THEN S
    ELSE LET after == {i \in 1..Len(S) : Less(s, S[i])}
             pos == IF after = {} THEN Len(S) + 1
                    ELSE CHOOSE i \in after : \A j \in after : i <= j
         IN  SubSeq(S, 1, pos - 1) \o <<s>> \o SubSeq(S, pos, Len(S))

\* std::set::erase(iterator)
SetErase(S, i) == SubSeq(S, 1, i - 1) \o SubSeq(S, i + 1, Len(S))

\* "Reinsert updated NPCs": the queue is inserted front to back, from index i
RECURSIVE InsertAll(_, _, _)
InsertAll(S, upd, i) ==
    IF i > Len(upd) THEN S
    ELSE CHOOSE R \in {InsertAll(T, upd, i + 1) : T \in {SetInsert(S, upd[i])}} : TRUE

\* std::find_if(..., spriteName == "aaron"): index of the first match, 0 for end()
FindPlayer(S) ==
    LET hits == {i \in 1..Len(S) : S[i].spriteName = "aaron"}
    IN  IF hits = {} THEN 0 ELSE CHOOSE i \in hits : \A j \in hits : i <= j

----------------------------------------------------------------------------
(* Map files.  An animation entry carries the size of its frame images.    *)

Anim(fc, fd, fw, fh, w, h) ==
    [frameCount |-> fc, frameDelay |-> fd, footW |-> fw, footH |-> fh, w |-> w, h |-> h]

Tex(fw, fh, w, h) == [footW |-> fw, footH |-> fh, w |-> w, h |-> h]

AaronAnims ==
    [n \in {"aaronIdleS", "aaronIdleN", "aaronIdleNE", "aaronIdleSE",
            "aaronWalkS", "aaronWalkN", "aaronWalkNE", "aaronWalkSE"} |->
        IF n = "aaronIdleS" THEN Anim(2, 100, 8, 6, 16, 24)
        ELSE IF n \in {"aaronIdleN", "aaronIdleNE", "aaronIdleSE"} THEN Anim(2, 200, 8, 6, 16, 24)
        ELSE Anim(3, 100, 8, 6, 16, 24)]

NpcAnims ==
    [n \in {"mushroomHop", "reynaIdleSE"} |->
        IF n = "mushroomHop" THEN Anim(2, 150, 8, 8, 16, 16)
        ELSE Anim(2, 250, 8, 6, 15, 20)]

StaticTextures ==
    [n \in {"background", "rock"} |->
        IF n = "background" THEN Tex(0, 0, 1600, 1200) ELSE Tex(8, 8, 16, 16)]

Restrict(f, D) == [n \in D |-> f[n]]

\* the level of the game: player, NPCs around it and at the map's edge
MapMeadow ==
    [animations |-> AaronAnims @@ NpcAnims,
     textures   |-> StaticTextures,
     map        |-> << [name |-> "background", spawns |-> << <<0, 0>> >>],
                       [name |-> "aaron",      spawns |-> << <<0, 100>> >>],
                       [name |-> "mushroom",   spawns |-> << <<0, 109>>, <<40, 100>>,
                                                             <<1570, 600>>, <<1584, 600>> >>],
                       [name |-> "reyna",      spawns |-> << <<1, 104>> >>],
                       [name |-> "rock",       spawns |-> << <<10, 20>> >>] >>]

\* a level with frames that failed to load and spawns outside the map
MapEdge ==
    [animations |-> Restrict(AaronAnims, DOMAIN AaronAnims \ {"aaronWalkN", "aaronIdleN"})
                    @@ NpcAnims,
     textures   |-> Restrict(StaticTextures, {"rock"}),
     map        |-> << [name |-> "aaron",    spawns |-> << <<1590, -5>> >>],
                       [name |-> "mushroom", spawns |-> << <<-3, 1195>> >>],
                       [name |-> "reyna",    spawns |-> << <<1590, -8>> >>],
                       [name |-> "rock",     spawns |-> << <<1590, 0>> >>] >>]

\* a level without a player
MapEmpty ==
    [animations |-> NpcAnims,
     textures   |-> StaticTextures,
     map        |-> << [name |-> "background", spawns |-> << <<0, 0>> >>],
                       [name |-> "mushroom",   spawns |-> << <<50, 50>> >>],
                       [name |-> "rock",       spawns |-> << <<10, 20>> >>] >>]

MapFiles == {MapMeadow, MapEdge, MapEmpty}

\* a level whose player and NPC animations have one frame delay
MapTiming(delay) ==
    [animations |-> [n \in {"aaronIdleS", "mushroomHop"} |-> Anim(5, delay, 8, 8, 16, 16)],
     textures   |-> Restrict(StaticTextures, {}),
     map        |-> << [name |-> "aaron",    spawns |-> << <<100, 100>> >>],
                       [name |-> "mushroom", spawns |-> << <<800, 600>> >>] >>]

TimingMapFiles == {MapTiming(100), MapTiming(120), MapEmpty}

----------------------------------------------------------------------------
(* loadMapFile, [MAP] section *)

Rect(x, y, w, h) == [x |-> x, y |-> y, w |-> w, h |-> h]

Texture(img, i) == [img |-> img, frame |-> i]

InitialAnimName(name) ==
    IF name = "aaron" THEN "aaronIdleS"
    ELSE IF name = "reyna" THEN "reynaIdleSE"
    ELSE IF name = "mushroom" THEN "mushroomHop"
    ELSE name

LoadFootRect(x, y, w, h, footW, footH) ==
    Rect(x + TruncDiv(w - footW, 2), y + h - footH, footW, footH)

NewSprite(name, animName, isAnim, x, y, w, h, footW, footH, tex) ==
    [rect            |-> Rect(x, y, w, h),
     footRect        |-> LoadFootRect(x, y, w, h, footW, footH),
     footW           |-> footW,
     footH           |-> footH,
     currentTexture  |-> tex,
     spriteName      |-> name,
     currentFrame    |-> 0,
     isAnimated      |-> isAnim,
     isMoving        |-> FALSE,
     facingLeft      |-> FALSE,
     animAccumulator |-> 0,
     currentAnimName |-> animName]

RECURSIVE SpawnAll(_, _, _, _)
SpawnAll(S, proto, spawns, i) ==
    IF i > Len(spawns) THEN S
    ELSE LET p == spawns[i]
             s == NewSprite(proto.name, proto.animName, proto.isAnim, p[1], p[2],
                            proto.w, proto.h, proto.footW, proto.footH, proto.tex)
         IN  CHOOSE R \in {SpawnAll(T, proto, spawns, i + 1) : T \in {SetInsert(S, s)}} : TRUE

\* one line of the [MAP] section
LoadMapLine(S, file, line) ==
    LET animName == InitialAnimName(line.name)
    IN  IF animName \in DOMAIN file.animations
        THEN LET a == file.animations[animName]
             IN  IF a.frameCount > 0
                 THEN SpawnAll(S, [name |-> line.name, animName |-> animName, isAnim |-> TRUE,
                                   w |-> a.w, h |-> a.h, footW |-> a.footW, footH |-> a.footH,
                                   tex |-> Texture(animName, 0)], line.spawns, 1)
                 ELSE S
        ELSE IF line.name \in DOMAIN file.textures
        THEN LET t == file.textures[line.name]
             IN  SpawnAll(S, [name |-> line.name, animName |-> animName, isAnim |-> FALSE,
                              w |-> t.w, h |-> t.h, footW |-> t.footW, footH |-> t.footH,
                              tex |-> Texture(line.name, 0)], line.spawns, 1)
        ELSE S

RECURSIVE LoadMapLines(_, _, _)
LoadMapLines(S, file, i) ==
    IF i > Len(file.map) THEN S
    ELSE CHOOSE R \in {LoadMapLines(T, file, i + 1) :
                           T \in {LoadMapLine(S, file, file.map[i])}} : TRUE

\* loadLevel: clears the store, then loadMapFile
LoadLevel(file) == LoadMapLines(<<>>, file, 1)

\* table[name] = entry for every entry of a file section; other keys stay
Merge(new, old) ==
    [n \in DOMAIN new \cup DOMAIN old |-> IF n \in DOMAIN new THEN new[n] ELSE old[n]]

\* loadLevel with tables that already hold entries: the [MAP] section looks
\* its names up in the tables as they are after the file's own sections
ReloadLevel(file, anims, texs) ==
    LoadMapLines(<<>>, [animations |-> Merge(file.animations, anims),
                        textures   |-> Merge(file.textures, texs),
                        map        |-> file.map], 1)

----------------------------------------------------------------------------
(* Keyboard states *)

Keys(esc, a, d, w, s) == [esc |-> esc, a |-> a, d |-> d, w |-> w, s |-> s]

NoKeys == Keys(FALSE, FALSE, FALSE, FALSE, FALSE)

DefaultNPCState ==
    [isFollowing |-> FALSE, isStationary |-> FALSE, isWandering |-> TRUE,
     wanderTimer |-> 0, wanderAngle |-> 0]

----------------------------------------------------------------------------
(* handleEvents: movement, facing, animation *)

\* static_cast<int>(std::round(PLAYER_SPEED * deltaTime))
RoundMove(speed, dt) == RoundDiv(speed * dt, MsPerSec)

IsMoving(k) == k.a \/ k.d \/ k.w \/ k.s

MoveX(k, amt) == (IF k.a THEN -amt ELSE 0) + (IF k.d THEN amt ELSE 0)

MoveY(k, amt) == (IF k.w THEN -amt ELSE 0) + (IF k.s THEN amt ELSE 0)

LastVertical(k, lv) == IF k.s THEN "S" ELSE IF k.w THEN "N" ELSE lv

\* mutant: without input the facing falls back to S
FacingIdleSouth(k, lv, pf) ==
    IF k.w /\ ~k.a /\ ~k.d THEN "N"
    ELSE IF k.s /\ ~k.a /\ ~k.d THEN "S"
    ELSE IF k.w /\ k.d THEN "NE"
    ELSE IF k.w /\ k.a THEN "NW"
    ELSE IF k.s /\ k.d THEN "SE"
    ELSE IF k.s /\ k.a THEN "SW"
    ELSE IF k.d THEN (IF lv = "N" THEN "NE" ELSE "SE")
    ELSE IF k.a THEN (IF lv = "N" THEN "NW" ELSE "SW")
    ELSE "S"

Facing(k, lv, pf) ==
    LET up == k.w
        down == k.s
        left == k.a
        right == k.d
    IN  IF up /\ ~left /\ ~right THEN "N"
        ELSE IF down /\ ~left /\ ~right THEN "S"
        ELSE IF up /\ right THEN "NE"
        ELSE IF up /\ left THEN "NW"
        ELSE IF down /\ right THEN "SE"
        ELSE IF down /\ left THEN "SW"
        ELSE IF right THEN (IF lv = "N" THEN "NE" ELSE "SE")
        ELSE IF left THEN (IF lv = "N" THEN "NW" ELSE "SW")
        ELSE pf

\* mutant: the lower clamp is missing
ClampPlayerUpperOnly(v, size, limit) == Min2(limit - size, v)

\* std::max(0, std::min(limit - size, v))
ClampPlayer(v, size, limit) == Max2(0, Min2(limit - size, v))

PlayerFootX(r, footW) == r.x + TruncDiv(r.w - footW, 2)

PlayerFootY(r, footH) == r.y + r.h - footH

\* the "if (isMoving)" block: translate, clamp, recompute the foot rectangle
MovePlayer(sp, mx, my) ==
    LET r == [sp.rect EXCEPT !.x = ClampPlayer(sp.rect.x + mx, sp.rect.w, MAP_WIDTH),
                             !.y = ClampPlayer(sp.rect.y + my, sp.rect.h, MAP_HEIGHT)]
    IN  [sp EXCEPT !.rect = r,
                   !.footRect = [sp.footRect EXCEPT !.x = PlayerFootX(r, sp.footW),
                                                    !.y = PlayerFootY(r, sp.footH)]]

\* the camera of the "if (isMoving)" block, computed from the unscaled screen
MoveCamera(r) ==
    LET cx == r.x + TruncDiv(r.w, 2) - TruncDiv(SCREEN_WIDTH, 2)
        cy == r.y + TruncDiv(r.h, 2) - TruncDiv(SCREEN_HEIGHT, 2)
    IN  [x |-> -Max2(0, Min2(MAP_WIDTH - SCREEN_WIDTH, cx)),
         y |-> -Max2(0, Min2(MAP_HEIGHT - SCREEN_HEIGHT, cy))]

\* mutant: the western diagonals share one animation
AnimNameForWest(isMoving, facing) ==
    LET dir == IF facing \in {"NW", "SW"} THEN "SE" ELSE facing
    IN  IF isMoving
        THEN (IF dir = "N" THEN "aaronWalkN" ELSE IF dir = "S" THEN "aaronWalkS"
              ELSE IF dir = "NE" THEN "aaronWalkNE" ELSE "aaronWalkSE")
        ELSE (IF dir = "N" THEN "aaronIdleN" ELSE IF dir = "S" THEN "aaronIdleS"
              ELSE IF dir = "NE" THEN "aaronIdleNE" ELSE "aaronIdleSE")

AnimNameFor(isMoving, facing) ==
    LET dir == IF facing = "NW" THEN "NE" ELSE IF facing = "SW" THEN "SE" ELSE facing
    IN  IF isMoving
        THEN (IF dir = "N" THEN "aaronWalkN" ELSE IF dir = "S" THEN "aaronWalkS"
              ELSE IF dir = "NE" THEN "aaronWalkNE" ELSE "aaronWalkSE")
        ELSE (IF dir = "N" THEN "aaronIdleN" ELSE IF dir = "S" THEN "aaronIdleS"
              ELSE IF dir = "NE" THEN "aaronIdleNE" ELSE "aaronIdleSE")

FlipFor(facing) == facing \in {"NW", "SW"}

\* "Reset animation if switching to new one"
SwitchAnimation(sp, animName) ==
    IF sp.currentAnimName # animName
    THEN [sp EXCEPT !.currentAnimName = animName,
                    !.currentFrame = 0,
                    !.animAccumulator = 0,
                    !.currentTexture = Texture(animName, 0)]
    ELSE sp

\* "Always update animation frames": the field holds milliseconds
AdvancePlayerFrame(sp, animName, A, dt) ==
    LET acc == sp.animAccumulator + (dt * 1000 * AccUnit) \div MsPerSec
    IN  IF acc >= A.frameDelay * AccUnit
        THEN LET f == (sp.currentFrame + 1) % A.frameCount
             IN  [sp EXCEPT !.currentFrame = f,
                            !.currentTexture = Texture(animName, f),
                            !.animAccumulator = acc - A.frameDelay * AccUnit]
        ELSE [sp EXCEPT !.animAccumulator = acc]

\* mutant: a name without table entry is still taken over by the sprite
AnimatePlayerRenaming(sp, animName, anims, dt) ==
    IF animName \in DOMAIN anims
    THEN AdvancePlayerFrame(SwitchAnimation(sp, animName), animName, anims[animName], dt)
    ELSE [sp EXCEPT !.currentAnimName = animName, !.currentFrame = 0, !.animAccumulator = 0]

AnimatePlayer(sp, animName, anims, dt) ==
    IF animName \in DOMAIN anims
    THEN AdvancePlayerFrame(SwitchAnimation(sp, animName), animName, anims[animName], dt)
    ELSE sp

----------------------------------------------------------------------------
(* handleEvents: the event queue *)

ScaleUp(sc) == Min2(MAX_SCALE_X, (sc * 11) \div 10)

\* mutant: the lower clamp is missing
ScaleDownUnclamped(sc) == (sc * 9) \div 10

ScaleDown(sc) == Max2(MIN_SCALE_X, (sc * 9) \div 10)

\* the SDL_PollEvent loop; SDL_QUIT returns at once.  Mouse events touch only
\* the cursor sprite, which is outside the store, and are not generated.
\* one SDL_KEYDOWN event
KeyDown(e, t) ==
    IF e = "KEY_LEFT" THEN [t EXCEPT !.speed = t.speed - 1]
    ELSE IF e = "KEY_RIGHT" THEN [t EXCEPT !.speed = t.speed + 1]
    ELSE IF e = "KEY_UP" THEN [t EXCEPT !.scale = ScaleUp(t.scale)]
    ELSE [t EXCEPT !.scale = ScaleDown(t.scale)]

RECURSIVE PollEvents(_, _, _)
PollEvents(q, i, t) ==
    IF i > Len(q) THEN t
    ELSE IF q[i] = "QUIT" THEN [t EXCEPT !.quit = TRUE]
    ELSE CHOOSE R \in {PollEvents(q, i + 1, u) : u \in {KeyDown(q[i], t)}} : TRUE

ProcessEvents(q, speed, sc) == PollEvents(q, 1, [quit |-> FALSE, speed |-> speed, scale |-> sc])

VisibleSize(screen, sc) == (screen * ScaleUnit) \div sc

\* "Update camera based on current player position"
Camera(r, sc) ==
    LET vw == VisibleSize(SCREEN_WIDTH, sc)
        vh == VisibleSize(SCREEN_HEIGHT, sc)
        cx == r.x + TruncDiv(r.w, 2) - TruncDiv(vw, 2)
        cy == r.y + TruncDiv(r.h, 2) - TruncDiv(vh, 2)
    IN  [x |-> -Max2(0, Min2(MAP_WIDTH - vw, cx)),
         y |-> -Max2(0, Min2(MAP_HEIGHT - vh, cy))]

----------------------------------------------------------------------------
(* handleEvents *)

\* no sprite named "aaron": return true before anything is sampled
HandleEventsNoPlayer(k, q) ==
    /\ pc = "handleEvents"
    /\ frame < MaxFrames
    /\ FindPlayer(gameSprites) = 0
    /\ keyState' = k
    /\ eventQueue' = q
    /\ running' = TRUE
    /\ pc' = "updateNPCs"
    /\ frame' = frame + 1
    /\ UNCHANGED <<gameSprites, npcStates, animationMap, textureMap, level, backgroundOffset, globalScale,
                   PLAYER_SPEED, g_playerFacing, g_lastVertical, deltaTime, drawn>>

\* mutant: the loop is left as soon as handleEvents returns false
HandleEventsEscapeBreaking(k, dt, q) ==
    /\ pc = "handleEvents"
    /\ frame < MaxFrames
    /\ FindPlayer(gameSprites) # 0
    /\ k.esc
    /\ deltaTime' = dt
    /\ keyState' = k
    /\ eventQueue' = q
    /\ running' = FALSE
    /\ pc' = "cleanup"
    /\ frame' = frame + 1
    /\ UNCHANGED <<gameSprites, npcStates, animationMap, textureMap, level, backgroundOffset, globalScale,
                   PLAYER_SPEED, g_playerFacing, g_lastVertical, drawn>>

\* ESC held: return false after the frame time is taken
HandleEventsEscape(k, dt, q) ==
    /\ pc = "handleEvents"
    /\ frame < MaxFrames
    /\ FindPlayer(gameSprites) # 0
    /\ k.esc
    /\ deltaTime' = dt
    /\ keyState' = k
    /\ eventQueue' = q
    /\ running' = FALSE
    /\ pc' = "updateNPCs"
    /\ frame' = frame + 1
    /\ UNCHANGED <<gameSprites, npcStates, animationMap, textureMap, level, backgroundOffset, globalScale,
                   PLAYER_SPEED, g_playerFacing, g_lastVertical, drawn>>

\* the player sprite as handleEvents leaves it
PlayerAfter(sp, k, dt, speed, lv, pf, anims) ==
    LET amt == RoundMove(speed, dt)
        moving == IsMoving(k)
        facing == Facing(k, LastVertical(k, lv), pf)
        moved == IF moving THEN MovePlayer(sp, MoveX(k, amt), MoveY(k, amt)) ELSE sp
        posed == [moved EXCEPT !.isMoving = moving, !.facingLeft = FlipFor(facing)]
    IN  AnimatePlayer(posed, AnimNameFor(moving, facing), anims, dt)

HandleEventsPlayer(k, dt, q) ==
    /\ pc = "handleEvents"
    /\ frame < MaxFrames
    /\ FindPlayer(gameSprites) # 0
    /\ ~k.esc
    /\ LET p == FindPlayer(gameSprites)
           lv == LastVertical(k, g_lastVertical)
           facing == Facing(k, lv, g_playerFacing)
           updated == PlayerAfter(gameSprites[p], k, dt, PLAYER_SPEED,
                                  g_lastVertical, g_playerFacing, animationMap)
           store == SetInsert(SetErase(gameSprites, p), updated)
           ev == ProcessEvents(q, PLAYER_SPEED, globalScale)
           cur == FindPlayer(store)
           early == IF IsMoving(k) THEN MoveCamera(updated.rect) ELSE backgroundOffset
       IN  /\ deltaTime' = dt
           /\ keyState' = k
           /\ eventQueue' = q
           /\ g_lastVertical' = lv
           /\ g_playerFacing' = IF IsMoving(k) THEN facing ELSE g_playerFacing
           /\ gameSprites' = store
           /\ PLAYER_SPEED' = ev.speed
           /\ globalScale' = ev.scale
           /\ running' = ~ev.quit
           /\ backgroundOffset' = IF ev.quit \/ cur = 0 THEN early
                                  ELSE Camera(store[cur].rect, ev.scale)
    /\ pc' = "updateNPCs"
    /\ frame' = frame + 1
    /\ UNCHANGED <<npcStates, animationMap, textureMap, level, drawn>>

----------------------------------------------------------------------------
(* updateNPCs: geometry.  Coordinates of centres are doubled so that the   *)
(* half pixels of footRect.w / 2.0f stay integers: Dist2x4 is 4 * dist^2.  *)

\* playerPos: the integer centre of the player's foot rectangle
PlayerPos(sp) ==
    [x |-> sp.footRect.x + TruncDiv(sp.footRect.w, 2),
     y |-> sp.footRect.y + TruncDiv(sp.footRect.h, 2)]

\* 2 * dx and 2 * dy
Dx2(s, pp) == 2 * pp.x - (2 * s.footRect.x + s.footRect.w)

Dy2(s, pp) == 2 * pp.y - (2 * s.footRect.y + s.footRect.h)

Dist2x4(s, pp) == Dx2(s, pp) * Dx2(s, pp) + Dy2(s, pp) * Dy2(s, pp)

\* dist < r and dist > r, for an integer r
DistBelow(q, r) == q < 4 * r * r

DistAbove(q, r) == q > 4 * r * r

\* mutant: the minimum distance is not tested
IsFollowingAnyClose(q) == DistBelow(q, DETECTION_RADIUS)

\* st.isFollowing = (dist < DETECTION_RADIUS && dist > 5.0f)
IsFollowing(q) == DistBelow(q, DETECTION_RADIUS) /\ DistAbove(q, FOLLOW_MIN_DIST)

\* mutant: the player is not skipped
IsNPCOrPlayer(s) == ~(~s.isAnimated \/ s.spriteName = "background")

IsNPC(s) == ~(s.spriteName = "aaron" \/ ~s.isAnimated \/ s.spriteName = "background")

\* npcKey: spriteName + "_" + rect.x + "_" + rect.y of the sprite as iterated
NpcKey(s) == <<s.spriteName, s.rect.x, s.rect.y>>

StateOf(states, key) == IF key \in DOMAIN states THEN states[key] ELSE DefaultNPCState

\* floor of the square root
Isqrt(q) == CHOOSE r \in 0..(2 * DETECTION_RADIUS + 1) : r * r <= q /\ q < (r + 1) * (r + 1)

\* d * sqrt(q) < n, decided on the integer square root where that suffices
FollowLess(d, q, n) ==
    LET r == Isqrt(q)
    IN  IF d * (r + 1) <= n THEN TRUE
        ELSE IF d * r >= n THEN FALSE
        ELSE SqrtLess(d, q, n)

\* 1 at full speed, 2 when "Slow down when close to player" halves the vector
FollowDivisor(q) == IF DistBelow(q, SLOW_DOWN_DIST) THEN 2 ELSE 1

\* std::round of (d2 / 2) / dist * NPC_SPEED * deltaTime (halved when close):
\* the largest j with j - 1/2 <= |d2| * NPC_SPEED * dt / (MsPerSec * k * sqrt(q)),
\* searched between the values the integer square root brackets it with
FollowStep(d2, q, dt) ==
    LET k == FollowDivisor(q)
        P == Abs(d2) * NPC_SPEED * dt
        R == MsPerSec * k
        r == Isqrt(q)
        lo == (2 * P + R * (r + 1)) \div (2 * R * (r + 1))
        hi == (2 * P + R * r) \div (2 * R * r)
    IN  Sign(d2) * (lo + Cardinality({j \in (lo + 1)..hi : SqrtLeq((2 * j - 1) * R, q, 2 * P)}))

\* std::abs(mx) > 0.1f for the follow vector
FollowTurns(d2, q, dt) ==
    FollowLess(100 * FollowDivisor(q), q, Abs(d2) * NPC_SPEED * dt)

WanderAngles == {0, 90, 180, 270}

Cos(a) == IF a = 0 THEN 1 ELSE IF a = 180 THEN -1 ELSE 0

Sin(a) == IF a = 90 THEN 1 ELSE IF a = 270 THEN -1 ELSE 0

\* mutant: the wander vector is not halved
WanderStepFullSpeed(c, dt) == RoundDiv(c * NPC_SPEED * dt, MsPerSec)

\* std::round of cos * NPC_SPEED * 0.5 * deltaTime
WanderStep(c, dt) == RoundDiv(c * NPC_SPEED * dt, 2 * MsPerSec)

\* std::abs(mx) > 0.1f for the wander vector
WanderTurns(c, dt) == Abs(c) * NPC_SPEED * dt * 10 > 2 * MsPerSec

\* rand() * deltaTime / RAND_MAX * 2 pi lies in [0, 2 pi deltaTime]
DrawableAngles(dt) == {a \in WanderAngles : a * MsPerSec <= 360 * dt}

\* mutant: only the upper bound is enforced
ClampNPCUpperOnly(v, size, limit) == IF limit - size < v THEN limit - size ELSE v

\* std::clamp(v, 0, limit - size)
ClampNPC(v, size, limit) == IF v < 0 THEN 0 ELSE IF limit - size < v THEN limit - size ELSE v

\* mutant: the foot rectangle is not centred
NPCFootXLeft(r, footW) == r.x

NPCFootX(r, footW) == r.x + TruncDiv(r.w - footW, 2)

NPCFootY(r, footH) == r.y + r.h - footH

----------------------------------------------------------------------------
(* updateNPCs: one NPC *)

\* the state record after the "reyna" override and the isFollowing assignment
BehaviourState(spr, st, q) ==
    LET base == IF spr.spriteName = "reyna"
                THEN [st EXCEPT !.isStationary = TRUE, !.isWandering = FALSE,
                                !.isFollowing = FALSE]
                ELSE st
    IN  [base EXCEPT !.isFollowing = IsFollowing(q)]

\* mutant: the wander branch does not depend on the follow branch
WanderBranchAlways(st, q) == st.isWandering

WanderBranch(st, q) == ~(st.isFollowing /\ q > 0) /\ st.isWandering

\* the wander timer and angle after the wander branch
WanderState(st, dt, angle) ==
    LET t == st.wanderTimer + dt
    IN  IF t >= WANDER_CHANGE_TIME * MsPerSec
        THEN [st EXCEPT !.wanderTimer = 0, !.wanderAngle = angle]
        ELSE [st EXCEPT !.wanderTimer = t]

\* the movement vector, rounded per axis, and whether |mx| > 0.1
Movement(st, dx2, dy2, q, dt) ==
    IF st.isFollowing /\ q > 0
    THEN [x |-> FollowStep(dx2, q, dt), y |-> FollowStep(dy2, q, dt),
          turns |-> FollowTurns(dx2, q, dt), left |-> dx2 < 0]
    ELSE IF st.isWandering
    THEN [x |-> WanderStep(Cos(st.wanderAngle), dt), y |-> WanderStep(Sin(st.wanderAngle), dt),
          turns |-> WanderTurns(Cos(st.wanderAngle), dt), left |-> Cos(st.wanderAngle) < 0]
    ELSE [x |-> 0, y |-> 0, turns |-> FALSE, left |-> FALSE]

\* mutant: the movement vector is applied to "reyna" too
MoveNPCAll(spr, mv) ==
    [spr.rect EXCEPT !.x = ClampNPC(spr.rect.x + mv.x, spr.rect.w, MAP_WIDTH),
                     !.y = ClampNPC(spr.rect.y + mv.y, spr.rect.h, MAP_HEIGHT)]

\* new rect: movement is applied to every NPC but "reyna", then clamped
MoveNPC(spr, mv) ==
    LET newX == IF spr.spriteName # "reyna" THEN spr.rect.x + mv.x ELSE spr.rect.x
        newY == IF spr.spriteName # "reyna" THEN spr.rect.y + mv.y ELSE spr.rect.y
    IN  [spr.rect EXCEPT !.x = ClampNPC(newX, spr.rect.w, MAP_WIDTH),
                         !.y = ClampNPC(newY, spr.rect.h, MAP_HEIGHT)]

\* float(acc + dt) of line 994: the float acc (seconds times SecUnit) and the
\* double dt (whole milliseconds) are added in double and stored to a float.
\* The sum is formed to 40 binary places (hi counts 2^-20, lo counts 2^-40,
\* res tells whether dt has places beyond them) and rounded to nearest, ties
\* to even, at the 24th significant bit.  The error of the double sum is
\* below 2^-52 and the sum's distance to a rounding boundary, if not zero,
\* is above 2^-42, so the double does not change the result.
F32Sum(acc, dt) ==
    LET r1  == (dt * 2^20) % 1000
        res == (r1 * 2^20) % 1000
        lo0 == (acc % 2^10) * 2^10 + (r1 * 2^20) \div 1000
        hi  == acc \div 2^10 + (dt * 2^20) \div 1000 + lo0 \div 2^20
        lo  == lo0 % 2^20
        b   == CHOOSE e \in 13..20 : 2^e <= hi /\ hi < 2^(e + 1)
        u   == 2^(b - 3)
        keep == lo \div u
        rest == lo % u
        up  == \/ 2 * rest > u
               \/ 2 * rest = u /\ (res > 0 \/ keep % 2 = 1)
    IN  hi * 2^10 + ((keep + (IF up THEN 1 ELSE 0)) * u) \div 2^10

\* the least float value, times SecUnit, that is >= frameDelay / 1000.0
FrameDelaySeconds(frameDelay) ==
    LET r1 == (frameDelay * 2^20) % 1000
    IN  ((frameDelay * 2^20) \div 1000) * 2^10 + (r1 * 2^10) \div 1000
          + (IF (r1 * 2^10) % 1000 > 0 THEN 1 ELSE 0)

\* mutant: the frame index is not taken modulo the frame count
AnimateNPCNoWrap(sp, anims, dt) ==
    IF sp.isAnimated /\ sp.currentAnimName \in DOMAIN anims
    THEN LET A == anims[sp.currentAnimName]
             acc == F32Sum(sp.animAccumulator, dt)
         IN  IF acc >= FrameDelaySeconds(A.frameDelay)
             THEN [sp EXCEPT !.currentFrame = sp.currentFrame + 1,
                             !.currentTexture = Texture(sp.currentAnimName, sp.currentFrame + 1),
                             !.animAccumulator = 0]
             ELSE [sp EXCEPT !.animAccumulator = acc]
    ELSE sp

\* the NPC animation step: the field holds seconds, the accumulator is reset
AnimateNPC(sp, anims, dt) ==
    IF sp.isAnimated /\ sp.currentAnimName \in DOMAIN anims
    THEN LET A == anims[sp.currentAnimName]
             acc == F32Sum(sp.animAccumulator, dt)
         IN  IF acc >= FrameDelaySeconds(A.frameDelay)
             THEN LET f == (sp.currentFrame + 1) % A.frameCount
                  IN  [sp EXCEPT !.currentFrame = f,
                                 !.currentTexture = Texture(sp.currentAnimName, f),
                                 !.animAccumulator = 0]
             ELSE [sp EXCEPT !.animAccumulator = acc]
    ELSE sp

\* the body of the while loop for one NPC: the updated copy and its state record
StepNPC(spr, st0, pp, dt, anims, angle) ==
    LET q == Dist2x4(spr, pp)
        st1 == BehaviourState(spr, st0, q)
        st2 == IF WanderBranch(st1, q) THEN WanderState(st1, dt, angle) ELSE st1
        mv == Movement(st2, Dx2(spr, pp), Dy2(spr, pp), q, dt)
        r == MoveNPC(spr, mv)
        placed == [spr EXCEPT !.rect = r,
                              !.footRect = [spr.footRect EXCEPT !.x = NPCFootX(r, spr.footW),
                                                                !.y = NPCFootY(r, spr.footH)],
                              !.facingLeft = IF mv.turns THEN mv.left ELSE spr.facingLeft]
    IN  [sprite |-> AnimateNPC(placed, anims, dt), state |-> st2]

\* the NPCs whose wander branch draws a new angle on this tick
NeedsDraw(spr, states, pp, dt) ==
    LET q == Dist2x4(spr, pp)
        st == BehaviourState(spr, StateOf(states, NpcKey(spr)), q)
    IN  /\ IsNPC(spr)
        /\ WanderBranch(st, q)
        /\ st.wanderTimer + dt >= WANDER_CHANGE_TIME * MsPerSec

----------------------------------------------------------------------------
(* updateNPCs: the loop over the store and the reinsertion *)

PutState(states, key, st) ==
    [k \in DOMAIN states \cup {key} |-> IF k = key THEN st ELSE states[k]]

\* one iteration of the while loop: an NPC is erased and queued, the rest stays
LoopBody(spr, acc, pp, dt, anims, angle) ==
    IF ~IsNPC(spr) THEN [acc EXCEPT !.kept = Append(acc.kept, spr)]
    ELSE LET key == NpcKey(spr)
             res == StepNPC(spr, StateOf(acc.states, key), pp, dt, anims, angle)
         IN  [acc EXCEPT !.updated = Append(acc.updated, res.sprite),
                         !.states = PutState(acc.states, key, res.state)]

RECURSIVE NPCLoop(_, _, _, _, _, _, _)
NPCLoop(S, i, acc, pp, dt, anims, draws) ==
    IF i > Len(S) THEN acc
    ELSE CHOOSE R \in {NPCLoop(S, i + 1, nxt, pp, dt, anims, draws) :
                           nxt \in {LoopBody(S[i], acc, pp, dt, anims,
                                              IF i \in DOMAIN draws THEN draws[i] ELSE 0)}} : TRUE

\* no player: return before anything is touched
UpdateNPCsNoPlayer ==
    /\ pc = "updateNPCs"
    /\ FindPlayer(gameSprites) = 0
    /\ pc' = "render"
    /\ UNCHANGED <<gameSprites, npcStates, animationMap, textureMap, level, backgroundOffset, globalScale,
                   PLAYER_SPEED, g_playerFacing, g_lastVertical, deltaTime, keyState,
                   eventQueue, running, frame, drawn>>

UpdateNPCsPlayer ==
    /\ pc = "updateNPCs"
    /\ FindPlayer(gameSprites) # 0
    /\ LET pp == PlayerPos(gameSprites[FindPlayer(gameSprites)])
           need == {i \in 1..Len(gameSprites) :
                        NeedsDraw(gameSprites[i], npcStates, pp, deltaTime)}
       IN  \E draws \in [need -> DrawableAngles(deltaTime)] :
               \E res \in {NPCLoop(gameSprites, 1,
                                     [kept |-> <<>>, updated |-> <<>>, states |-> npcStates],
                                     pp, deltaTime, animationMap, draws)} :
                   /\ gameSprites' = InsertAll(res.kept, res.updated, 1)
                   /\ npcStates' = res.states
    /\ pc' = "render"
    /\ UNCHANGED <<animationMap, textureMap, level, backgroundOffset, globalScale, PLAYER_SPEED,
                   g_playerFacing, g_lastVertical, deltaTime, keyState, eventQueue,
                   running, frame, drawn>>

UpdateNPCs == UpdateNPCsNoPlayer \/ UpdateNPCsPlayer

----------------------------------------------------------------------------
(* render and the main loop *)

\* static_cast<int>(v * globalScale)
Scaled(v, sc) == TruncDiv(v * sc, ScaleUnit)

DrawCall(s, off, sc) ==
    [texture |-> s.currentTexture,
     flip    |-> s.facingLeft,
     name    |-> s.spriteName,
     dst     |-> Rect(Scaled(s.rect.x + off.x, sc), Scaled(s.rect.y + off.y, sc),
                      Scaled(s.rect.w, sc), Scaled(s.rect.h, sc))]

\* mutant: the loop condition is not tested after render
RenderIgnoringQuit ==
    /\ pc = "render"
    /\ drawn' = [i \in 1..Len(gameSprites) |->
                    DrawCall(gameSprites[i], backgroundOffset, globalScale)]
    /\ pc' = "handleEvents"
    /\ UNCHANGED <<gameSprites, npcStates, animationMap, textureMap, level, backgroundOffset, globalScale,
                   PLAYER_SPEED, g_playerFacing, g_lastVertical, deltaTime, keyState,
                   eventQueue, running, frame>>

Render ==
    /\ pc = "render"
    /\ drawn' = [i \in 1..Len(gameSprites) |->
                    DrawCall(gameSprites[i], backgroundOffset, globalScale)]
    /\ pc' = IF running THEN "handleEvents" ELSE "cleanup"
    /\ UNCHANGED <<gameSprites, npcStates, animationMap, textureMap, level, backgroundOffset, globalScale,
                   PLAYER_SPEED, g_playerFacing, g_lastVertical, deltaTime, keyState,
                   eventQueue, running, frame>>

\* cleanup() after the loop has ended
Cleanup ==
    /\ pc = "cleanup"
    /\ pc' = "done"
    /\ UNCHANGED <<gameSprites, npcStates, animationMap, textureMap, level, backgroundOffset, globalScale,
                   PLAYER_SPEED, g_playerFacing, g_lastVertical, deltaTime, keyState,
                   eventQueue, running, frame, drawn>>

----------------------------------------------------------------------------
(* Initial state: the globals' initialisers and loadLevel("level1") *)

InitFrom(files) ==
    \E file \in files :
        /\ gameSprites = LoadLevel(file)
        /\ animationMap = file.animations
        /\ textureMap = file.textures
        /\ level = file
        /\ npcStates = << >>
        /\ backgroundOffset = [x |-> 0, y |-> 0]
        /\ globalScale = INITIAL_SCALE * ScaleUnit
        /\ PLAYER_SPEED = INITIAL_PLAYER_SPEED
        /\ g_playerFacing = "S"
        /\ g_lastVertical = "S"
        /\ deltaTime = 0
        /\ keyState = NoKeys
        /\ eventQueue = << >>
        /\ running = TRUE
        /\ pc = "handleEvents"
        /\ frame = 0
        /\ drawn = << >>

Init == InitFrom(MapFiles)

----------------------------------------------------------------------------
(* Inputs of a frame *)

KeyStates ==
    { NoKeys,
      Keys(FALSE, TRUE, FALSE, FALSE, FALSE),    \* left
      Keys(FALSE, FALSE, TRUE, FALSE, FALSE),    \* right
      Keys(FALSE, FALSE, FALSE, TRUE, FALSE),    \* up
      Keys(FALSE, FALSE, FALSE, FALSE, TRUE),    \* down
      Keys(FALSE, FALSE, TRUE, TRUE, FALSE),     \* up + right
      Keys(FALSE, TRUE, FALSE, TRUE, FALSE),     \* up + left
      Keys(FALSE, FALSE, TRUE, FALSE, TRUE),     \* down + right
      Keys(FALSE, TRUE, FALSE, FALSE, TRUE),     \* down + left
      Keys(FALSE, TRUE, TRUE, FALSE, FALSE),     \* left + right
      Keys(FALSE, FALSE, FALSE, TRUE, TRUE),     \* up + down
      Keys(TRUE, FALSE, FALSE, FALSE, FALSE),    \* escape
      Keys(TRUE, TRUE, FALSE, FALSE, FALSE) }    \* escape + left

DeltaTimes == {50, 1000}

EventQueues == { <<>>, <<"QUIT">> }

TuneKeyStates ==
    { NoKeys,
      Keys(FALSE, FALSE, TRUE, FALSE, FALSE),
      Keys(TRUE, FALSE, FALSE, FALSE, FALSE) }

TuneDeltaTimes == {250}

Repeat(e, n) == [i \in 1..n |-> e]

RepeatCounts == {1, 6, MaxRepeat, 33}

TuneEventQueues ==
    { <<>>, <<"QUIT">>, <<"KEY_DOWN", "QUIT">>,
      Repeat("KEY_UP", 6) \o <<"KEY_DOWN", "KEY_UP">> }
    \cup { Repeat(e, n) : e \in {"KEY_LEFT", "KEY_RIGHT", "KEY_UP", "KEY_DOWN"},
                          n \in RepeatCounts }

HandleEventsIn(KS, DTS, EQS) ==
    \E k \in KS, q \in EQS :
        \/ HandleEventsNoPlayer(k, q)
        \/ \E dt \in DTS :
              \/ HandleEventsEscape(k, dt, q)
              \/ HandleEventsPlayer(k, dt, q)

HandleEvents == HandleEventsIn(KeyStates, DeltaTimes, EventQueues)

HandleEventsTune == HandleEventsIn(TuneKeyStates, TuneDeltaTimes, TuneEventQueues)

Next == HandleEvents \/ UpdateNPCs \/ Render \/ Cleanup

Spec == Init /\ [][Next]_vars

NextTune == HandleEventsTune \/ UpdateNPCs \/ Render \/ Cleanup

SpecTune == Init /\ [][NextTune]_vars

\* idle frames of uneven length on the levels with one frame delay
TimingKeyStates == { NoKeys, Keys(TRUE, FALSE, FALSE, FALSE, FALSE) }

TimingDeltaTimes == {40, 60, 80, 120}

HandleEventsTiming == HandleEventsIn(TimingKeyStates, TimingDeltaTimes, EventQueues)

NextTiming == HandleEventsTiming \/ UpdateNPCs \/ Render \/ Cleanup

InitTiming == InitFrom(TimingMapFiles)

SpecTiming == InitTiming /\ [][NextTiming]_vars

\* loadLevel called for another level between two frames: the store is
\* cleared and loadMapFile adds the file's entries to the tables as they are
LoadLevelCall(file) ==
    /\ pc = "handleEvents"
    /\ running
    /\ file # level
    /\ gameSprites' = ReloadLevel(file, animationMap, textureMap)
    /\ animationMap' = Merge(file.animations, animationMap)
    /\ textureMap' = Merge(file.textures, textureMap)
    /\ level' = file
    /\ UNCHANGED <<npcStates, backgroundOffset, globalScale, PLAYER_SPEED,
                   g_playerFacing, g_lastVertical, deltaTime, keyState,
                   eventQueue, running, pc, frame, drawn>>

LoadLevelStep == \E file \in MapFiles : LoadLevelCall(file)

LevelKeyStates ==
    { NoKeys, Keys(FALSE, FALSE, TRUE, FALSE, FALSE), Keys(TRUE, FALSE, FALSE, FALSE, FALSE) }

LevelDeltaTimes == {1000}

HandleEventsLevels == HandleEventsIn(LevelKeyStates, LevelDeltaTimes, EventQueues)

NextLevels == LoadLevelStep \/ HandleEventsLevels \/ UpdateNPCs \/ Render \/ Cleanup

SpecLevels == Init /\ [][NextLevels]_vars

----------------------------------------------------------------------------
(* Properties *)

PlayerOf(S) == S[FindPlayer(S)]

HasPlayer(S) == FindPlayer(S) # 0

\* handleEvents has just run past the ESC test with a player in the store
PlayerTicked == pc = "updateNPCs" /\ HasPlayer(gameSprites) /\ ~keyState.esc

MovementKeyHeld == keyState.a \/ keyState.d \/ keyState.w \/ keyState.s

\* the same, as a step
PlayerTick ==
    /\ pc = "handleEvents" /\ pc' = "updateNPCs"
    /\ HasPlayer(gameSprites) /\ HasPlayer(gameSprites') /\ ~keyState'.esc

NPCTick == pc = "updateNPCs" /\ pc' = "render" /\ HasPlayer(gameSprites)

\* C1: handleEvents and updateNPCs leave the number of entities in the store
\* unchanged, also when two NPCs of one name end the tick on the same
\* footprint bottom and left edge.
C1_PopulationPreserved ==
    [][(pc = "handleEvents" \/ pc = "updateNPCs") => Len(gameSprites') = Len(gameSprites)]_vars

\* the sort key of the claim: (footRect.y + footRect.h, footRect.x, spriteName)
KeyAscending(a, b) ==
    \/ a.footRect.y + a.footRect.h < b.footRect.y + b.footRect.h
    \/ /\ a.footRect.y + a.footRect.h = b.footRect.y + b.footRect.h
       /\ \/ a.footRect.x < b.footRect.x
          \/ a.footRect.x = b.footRect.x /\ NameRank(a.spriteName) <= NameRank(b.spriteName)

\* C2: in every state the store iterates "background" first and the other
\* entities in ascending (foot bottom, foot left, name) order, and a render
\* pass draws in that order.
C2_StoreOrdered ==
    /\ \A i \in 1..Len(gameSprites) : gameSprites[i].spriteName = "background" => i = 1
    /\ \A i, j \in 1..Len(gameSprites) :
          (i < j /\ gameSprites[i].spriteName # "background")
              => KeyAscending(gameSprites[i], gameSprites[j])
    /\ (pc \in {"handleEvents", "cleanup"} /\ frame > 0)
          => /\ Len(drawn) = Len(gameSprites)
             /\ \A i \in 1..Len(drawn) : drawn[i].name = gameSprites[i].spriteName

\* a frame has been drawn after the player walked up, past an NPC that has
\* itself moved during the frame
C2_Witness ==
    /\ pc \in {"handleEvents", "cleanup"} /\ frame > 0
    /\ Len(gameSprites) >= 5
    /\ gameSprites[1].spriteName = "background"
    /\ HasPlayer(gameSprites)
    /\ PlayerOf(gameSprites).rect.y < 100
    /\ \E i \in 1..Len(gameSprites) :
          /\ i > FindPlayer(gameSprites)
          /\ gameSprites[i].spriteName = "mushroom"
          /\ gameSprites[i].rect.x \notin {0, 40, 1570, 1584}
          /\ gameSprites[i].rect.y < 109

\* C3: a player tick that switches to another animation ends on frame 0 of
\* the new animation, whatever the accumulator was and whatever time elapsed.
C3_SwitchShowsFrameZero ==
    [][(PlayerTick /\ PlayerOf(gameSprites').currentAnimName
                         # PlayerOf(gameSprites).currentAnimName)
          => /\ PlayerOf(gameSprites').currentFrame = 0
             /\ PlayerOf(gameSprites').currentTexture
                    = [img |-> PlayerOf(gameSprites').currentAnimName, frame |-> 0]]_vars

\* the animation the tick selects
SelectedAnimation == AnimNameFor(IsMoving(keyState'), g_playerFacing')

\* C4: on a player tick without a switch the frame advances by
\* floor((a + e) / D) modulo the frame count and the accumulator ends at
\* (a + e) mod D.
C4_FrameAdvancesByQuotient ==
    [][(/\ PlayerTick
        /\ SelectedAnimation = PlayerOf(gameSprites).currentAnimName
        /\ SelectedAnimation \in DOMAIN animationMap)
          => LET old == PlayerOf(gameSprites)
                 new == PlayerOf(gameSprites')
                 A == animationMap[SelectedAnimation]
                 total == old.animAccumulator + deltaTime' * AccUnit
                 D == A.frameDelay * AccUnit
             IN  /\ new.currentFrame = (old.currentFrame + total \div D) % A.frameCount
                 /\ new.animAccumulator = total % D]_vars

\* C5: after a handleEvents call that runs to its end with a player present
\* the camera lies in [0, MAP - V] on both axes, V = screen size / globalScale.
C5_CameraInsideWorld ==
    (PlayerTicked /\ running)
        => LET vw == (SCREEN_WIDTH * ScaleUnit) \div globalScale
               vh == (SCREEN_HEIGHT * ScaleUnit) \div globalScale
           IN  /\ 0 <= -backgroundOffset.x /\ -backgroundOffset.x <= MAP_WIDTH - vw
               /\ 0 <= -backgroundOffset.y /\ -backgroundOffset.y <= MAP_HEIGHT - vh

\* four times the squared distance between the centre of an NPC's foot
\* rectangle and the (integer) centre of the player's foot rectangle
CentreDist2x4(s, pl) ==
    LET px == pl.footRect.x + pl.footRect.w \div 2
        py == pl.footRect.y + pl.footRect.h \div 2
        ex == 2 * px - (2 * s.footRect.x + s.footRect.w)
        ey == 2 * py - (2 * s.footRect.y + s.footRect.h)
    IN  ex * ex + ey * ey

IsNPCSprite(s) == s.isAnimated /\ s.spriteName \notin {"aaron", "background"}

RecordKey(s) == <<s.spriteName, s.rect.x, s.rect.y>>

WanderTarget(r, st, dt) ==
    LET mx == RoundDiv(Cos(st.wanderAngle) * NPC_SPEED * dt, 2 * MsPerSec)
        my == RoundDiv(Sin(st.wanderAngle) * NPC_SPEED * dt, 2 * MsPerSec)
    IN  [r EXCEPT !.x = Max2(0, Min2(MAP_WIDTH - r.w, r.x + mx)),
                  !.y = Max2(0, Min2(MAP_HEIGHT - r.h, r.y + my))]

RectAtKey(k) ==
    LET a == animationMap[InitialAnimName(k[1])]
    IN  [rect |-> Rect(k[2], k[3], a.w, a.h),
         footRect |-> Rect(k[2] + (a.w - a.footW) \div 2, k[3] + a.h - a.footH,
                           a.footW, a.footH)]

Half(a) == IF a >= 0 THEN a \div 2 ELSE -((-a) \div 2)

FootRectDerived(s) ==
    /\ s.footRect.x = s.rect.x + Half(s.rect.w - s.footW)
    /\ s.footRect.y = s.rect.y + s.rect.h - s.footH
    /\ s.footRect.w = s.footW
    /\ s.footRect.h = s.footH

\* C10: every entity's foot rectangle is centred in its rect horizontally
\* and aligned to its bottom, with the size (footW, footH).
C10_FootRectDerived ==
    \A i \in 1..Len(gameSprites) : FootRectDerived(gameSprites[i])

\* the rock of the example, next to a player and an NPC that have moved
C10_Witness ==
    /\ pc = "render"
    /\ frame >= 1
    /\ \E i \in 1..Len(gameSprites) :
          /\ gameSprites[i].spriteName = "rock"
          /\ gameSprites[i].rect = Rect(10, 20, 16, 16)
          /\ gameSprites[i].footRect = Rect(14, 28, 8, 8)
    /\ HasPlayer(gameSprites)
    /\ PlayerOf(gameSprites).isMoving
    /\ PlayerOf(gameSprites).rect.x > 0
    /\ \E i \in 1..Len(gameSprites) :
          /\ gameSprites[i].spriteName = "mushroom"
          /\ gameSprites[i].rect.y = 109
          /\ gameSprites[i].rect.x > 0

\* the rect moved into [0, MAP_WIDTH - w] x [0, MAP_HEIGHT - h]
ClampedRect(r) ==
    [r EXCEPT !.x = Max2(0, Min2(MAP_WIDTH - r.w, r.x)),
              !.y = Max2(0, Min2(MAP_HEIGHT - r.h, r.y))]

IsStationaryNPC(s) == IsNPCSprite(s) /\ s.spriteName = "reyna"

\* C11 (as stated): updateNPCs leaves the position of every "reyna" NPC
\* unchanged, wherever it was spawned.
C11_StationaryKeepsPosition ==
    [][NPCTick =>
          \A i \in 1..Len(gameSprites) :
              IsStationaryNPC(gameSprites[i])
                  => \E j \in 1..Len(gameSprites') :
                        /\ gameSprites'[j].spriteName = "reyna"
                        /\ gameSprites'[j].rect = gameSprites[i].rect]_vars

\* C11 (amended): updateNPCs applies no movement vector to a "reyna" NPC:
\* its position after the tick is its position before the tick clamped to
\* the map, so it is unchanged whenever the NPC lies inside the map.
C11_StationaryOnlyClamped ==
    [][NPCTick =>
          \A i \in 1..Len(gameSprites) :
              IsStationaryNPC(gameSprites[i])
                  => \E j \in 1..Len(gameSprites') :
                        /\ gameSprites'[j].spriteName = "reyna"
                        /\ gameSprites'[j].rect = ClampedRect(gameSprites[i].rect)]_vars

\* a "reyna" spawned above the map and within following range of the player
\* has been flagged as following and sits on the map's edge
C11_Witness ==
    /\ pc = "render"
    /\ \E k \in DOMAIN npcStates :
          /\ k[1] = "reyna" /\ k[3] < 0
          /\ npcStates[k].isFollowing
          /\ \E i \in 1..Len(gameSprites) :
                /\ gameSprites[i].spriteName = "reyna"
                /\ gameSprites[i].rect.x = Min2(k[2], MAP_WIDTH - gameSprites[i].rect.w)
                /\ gameSprites[i].rect.y = 0

\* ESC is held or an SDL_QUIT event is pending at the call of handleEvents
QuitSignalled == keyState.esc \/ \E i \in 1..Len(eventQueue) : eventQueue[i] = "QUIT"

\* C12: a handleEvents call made while ESC is held or a quit event is pending
\* returns false and the loop is not entered again, also when the store holds
\* no "aaron".
C12_QuitEndsLoop == QuitSignalled => (~running /\ pc # "handleEvents")

VerticalOf(f) == IF f \in {"N", "NE", "NW"} THEN "N" ELSE "S"

HorizontalOnly(k) == (k.a \/ k.d) /\ ~k.w /\ ~k.s

\* C13: on a player tick with left and/or right held and neither up nor down,
\* the facing chosen is a diagonal with the vertical component of the facing
\* chosen on the most recent tick with up or down held, S if there was none.
\* g_playerFacing holds the facing chosen on the most recent tick with a
\* movement key held; its vertical component can only have changed on a tick
\* with up or down held if every horizontal-only tick so far has kept it.
\* From the initial state, right alone selects "aaronWalkSE".
C13_HorizontalKeepsVertical ==
    [][(PlayerTick /\ HorizontalOnly(keyState'))
          => /\ g_playerFacing' \in {"NE", "NW", "SE", "SW"}
             /\ VerticalOf(g_playerFacing') = VerticalOf(g_playerFacing)
             /\ (frame = 0 /\ keyState'.d /\ ~keyState'.a)
                    => /\ SelectedAnimation = "aaronWalkSE"
                       /\ PlayerOf(gameSprites').currentAnimName = "aaronWalkSE"]_vars

\* the idle and walk animations of a facing, and its mirror flag
IdleAnimationOf(f) ==
    IF f = "N" THEN "aaronIdleN" ELSE IF f = "S" THEN "aaronIdleS"
    ELSE IF f \in {"NE", "NW"} THEN "aaronIdleNE" ELSE "aaronIdleSE"

WalkAnimationOf(f) ==
    IF f = "N" THEN "aaronWalkN" ELSE IF f = "S" THEN "aaronWalkS"
    ELSE IF f \in {"NE", "NW"} THEN "aaronWalkNE" ELSE "aaronWalkSE"

MirroredFacing(f) == f \in {"NW", "SW"}

\* the player shows the given animation unless the table has no entry for it
ShowsAnimation(sp, name) == name \in DOMAIN animationMap => sp.currentAnimName = name

\* C14: the remembered facing is the facing shown on a tick with a movement
\* key held; a tick without movement key shows that remembered facing (mirror
\* flag, idle animation) and changes neither it nor the last vertical.
C14_IdleKeepsFacing ==
    [][PlayerTick =>
          LET new == PlayerOf(gameSprites')
          IN  IF IsMoving(keyState')
              THEN /\ new.facingLeft = MirroredFacing(g_playerFacing')
                   /\ ShowsAnimation(new, WalkAnimationOf(g_playerFacing'))
              ELSE /\ g_playerFacing' = g_playerFacing
                   /\ g_lastVertical' = g_lastVertical
                   /\ new.facingLeft = MirroredFacing(g_playerFacing)
                   /\ ShowsAnimation(new, IdleAnimationOf(g_playerFacing))]_vars

\* an idle tick after a tick walking up and left: the player idles mirrored
\* on the north-east animation
C14_Witness ==
    /\ PlayerTicked /\ ~MovementKeyHeld
    /\ g_playerFacing = "NW" /\ g_lastVertical = "N"
    /\ PlayerOf(gameSprites).facingLeft
    /\ PlayerOf(gameSprites).currentAnimName = "aaronIdleNE"
    /\ ~PlayerOf(gameSprites).isMoving

\* the pixels a held direction moves the player by on the tick just taken
TickStep == RoundDiv(PLAYER_SPEED * deltaTime', MsPerSec)

HeldSign(pos, neg) == (IF pos THEN 1 ELSE 0) - (IF neg THEN 1 ELSE 0)

\* the viewport corner for a player rect r at the scale of the next state
ViewCorner(centre, screen, map) ==
    LET v == (screen * ScaleUnit) \div globalScale'
    IN  Max2(0, Min2(map - v, centre - v \div 2))

\* C15: a player tick that selects an animation without table entry leaves
\* the player's image, frame, accumulator and animation name as they were;
\* the position is still updated and clamped, the player is back in the
\* store, the camera is recomputed and the call returns true unless a quit
\* event was pending.
C15_MissingAnimationIsHarmless ==
    [][(PlayerTick /\ SelectedAnimation \notin DOMAIN animationMap)
          => LET old == PlayerOf(gameSprites)
                 new == PlayerOf(gameSprites')
                 k == keyState'
                 x == Max2(0, Min2(MAP_WIDTH - old.rect.w,
                                   old.rect.x + TickStep * HeldSign(k.d, k.a)))
                 y == Max2(0, Min2(MAP_HEIGHT - old.rect.h,
                                   old.rect.y + TickStep * HeldSign(k.s, k.w)))
             IN  /\ new.currentTexture = old.currentTexture
                 /\ new.currentFrame = old.currentFrame
                 /\ new.animAccumulator = old.animAccumulator
                 /\ new.currentAnimName = old.currentAnimName
                 /\ IsMoving(k) => (new.rect.x = x /\ new.rect.y = y)
                 /\ ~IsMoving(k) => new.rect = old.rect
                 /\ Len(gameSprites') = Len(gameSprites)
                 /\ running' = ~QuitSignalled'
                 /\ running' =>
                       /\ -backgroundOffset'.x
                              = ViewCorner(new.rect.x + new.rect.w \div 2, SCREEN_WIDTH, MAP_WIDTH)
                       /\ -backgroundOffset'.y
                              = ViewCorner(new.rect.y + new.rect.h \div 2, SCREEN_HEIGHT, MAP_HEIGHT)
             ]_vars

\* the player has walked up onto the map's edge in a level without
\* "aaronWalkN" and still shows the animation it was loaded with
C15_Witness ==
    /\ PlayerTicked /\ running
    /\ keyState.w /\ ~keyState.s /\ ~keyState.a /\ ~keyState.d
    /\ "aaronWalkN" \notin DOMAIN animationMap
    /\ PlayerOf(gameSprites).isMoving
    /\ PlayerOf(gameSprites).rect.y = 0
    /\ PlayerOf(gameSprites).currentAnimName = "aaronIdleS"
    /\ PlayerOf(gameSprites).animAccumulator > 0

\* C16: globalScale lies in [0.1, 5.0] in every reachable state, whatever
\* scale-up and scale-down key events were processed.
C16_ScaleInRange ==
    /\ 10 * globalScale >= ScaleUnit
    /\ globalScale <= 5 * ScaleUnit

\* a frame with 33 scale-down events has brought the scale to its minimum
C16_Witness ==
    /\ pc = "updateNPCs" /\ running
    /\ Len(eventQueue) = 33 /\ eventQueue[1] = "KEY_DOWN"
    /\ 10 * globalScale = ScaleUnit

\* C17: PLAYER_SPEED stays inside a fixed range under speed key events; in
\* particular it never drops below zero.
C17_SpeedNeverNegative == PLAYER_SPEED >= 0

\* C18: a frame is handleEvents, then updateNPCs, then render, one after the
\* other; a render pass is always preceded by the NPC pass and that by the
\* input pass of the same frame, and render leaves the store as it is.
C18_FrameSequence ==
    [][/\ pc = "handleEvents" => (pc' = "updateNPCs" /\ frame' = frame + 1)
       /\ pc = "updateNPCs" => (pc' = "render" /\ frame' = frame)
       /\ pc = "render" => /\ pc' \in {"handleEvents", "cleanup"}
                           /\ frame' = frame /\ frame > 0
                           /\ gameSprites' = gameSprites
                           /\ Len(drawn') = Len(gameSprites)
       /\ pc' = "updateNPCs" => pc = "handleEvents"
       /\ pc' = "render" => pc = "updateNPCs"
       /\ pc' = "cleanup" => pc = "render"]_vars

\* the frame in which ESC was held has still run its NPC pass and drawn the
\* whole store before the loop ended
C18_Witness ==
    /\ pc = "cleanup" /\ frame = 1 /\ keyState.esc /\ ~running
    /\ DOMAIN npcStates # {}
    /\ Len(drawn) > 0 /\ Len(drawn) = Len(gameSprites)

\* an NPC that is the only sprite of its name, so that every record under
\* that name was written for it
SoleNPC(S, i) ==
    /\ IsNPCSprite(S[i])
    /\ \A j \in 1..Len(S) : S[j].spriteName = S[i].spriteName => j = i

RecordsOf(name) == {k \in DOMAIN npcStates : k[1] = name}

InFollowRange(q) == 4 * 5 * 5 < q /\ q < 4 * 60 * 60

\* C19: for a non-stationary NPC that was not Following on its previous tick
\* and is not Following on this one, the wander timer continues from the
\* previous tick: it becomes the accumulated time, or 0 (with a new angle)
\* once that reaches WANDER_CHANGE_TIME, whether or not the NPC has moved.
\* Stated for an NPC that is alone under its name and has one record, which
\* is then the record of its previous tick.
C19_WanderTimerAccumulates ==
    [][NPCTick =>
          \A i \in 1..Len(gameSprites) :
              LET s == gameSprites[i]
                  recs == RecordsOf(s.spriteName)
              IN  (/\ SoleNPC(gameSprites, i)
                   /\ s.spriteName # "reyna"
                   /\ ~InFollowRange(CentreDist2x4(s, PlayerOf(gameSprites)))
                   /\ Cardinality(recs) = 1
                   /\ \A k \in recs : ~npcStates[k].isFollowing)
                      => LET prev == npcStates[CHOOSE k \in recs : TRUE]
                             total == prev.wanderTimer + deltaTime
                             now == npcStates'[RecordKey(s)]
                         IN  now.wanderTimer = IF total >= 2 * MsPerSec THEN 0 ELSE total]_vars

\* the sprite of the given name, for a name borne by one sprite
SpriteNamed(S, name) == S[CHOOSE j \in 1..Len(S) : S[j].spriteName = name]

\* C20: when the accumulator of an animated NPC reaches the frame duration
\* on an updateNPCs tick, the frame advances by one modulo the frame count
\* and the accumulator is reduced by the frame duration (to within 2^-20 s,
\* the rounding of the subtraction).  Stated for an NPC that is alone under
\* its name; the NPC accumulator counts seconds.
C20_NPCAccumulatorCarries ==
    [][NPCTick =>
          \A i \in 1..Len(gameSprites) :
              LET s == gameSprites[i]
              IN  (SoleNPC(gameSprites, i) /\ s.currentAnimName \in DOMAIN animationMap)
                      => LET A == animationMap[s.currentAnimName]
                             total == F32Sum(s.animAccumulator, deltaTime)
                             D == FrameDelaySeconds(A.frameDelay)
                             new == SpriteNamed(gameSprites', s.spriteName)
                         IN  total >= D
                                 => /\ new.currentFrame = (s.currentFrame + 1) % A.frameCount
                                    /\ Abs(new.animAccumulator - (total - D)) <= 2^10]_vars

\* C21: the player path and the NPC path count time in one unit.  For a
\* player and an NPC whose animations have the same frame delay, both started
\* at accumulator 0 and neither switched nor wrapped, after every frame either
\* both have made their first frame advance or neither has.
C21_SameFirstAdvance ==
    (pc = "render" /\ HasPlayer(gameSprites) /\ ~keyState.esc)
        => LET p == PlayerOf(gameSprites)
           IN  \A i \in 1..Len(gameSprites) :
                   LET s == gameSprites[i]
                   IN  (/\ IsNPCSprite(s)
                        /\ p.currentAnimName \in DOMAIN animationMap
                        /\ s.currentAnimName \in DOMAIN animationMap
                        /\ animationMap[p.currentAnimName].frameDelay
                              = animationMap[s.currentAnimName].frameDelay
                        /\ p.currentAnimName = "aaronIdleS"
                        /\ animationMap[p.currentAnimName].frameCount > frame
                        /\ animationMap[s.currentAnimName].frameCount > frame)
                           => (p.currentFrame = 0 <=> s.currentFrame = 0)

\* the names the [MAP] section of a file spawns
MapNames(file) == {file.map[i].name : i \in 1..Len(file.map)}

\* C22: after loadLevel has run for a new level, the store holds only
\* entities that the new map file spawns, and the animation and texture
\* tables hold no entry that was loaded for the previous level.
C22_NothingOfPreviousLevel ==
    [][level' # level
          => /\ \A i \in 1..Len(gameSprites') :
                    gameSprites'[i].spriteName \in MapNames(level')
             /\ DOMAIN animationMap' \subseteq DOMAIN level'.animations
             /\ DOMAIN textureMap' \subseteq DOMAIN level'.textures]_vars

\* the sort key of an entity
SortKey(s) == <<s.spriteName = "background", FootBottom(s), s.footRect.x, s.spriteName>>

StrictTotalOrderOn(S) ==
    /\ \A a \in S : ~Less(a, a)
    /\ \A a, b \in S : ~(Less(a, b) /\ Less(b, a))
    /\ \A a, b, c \in S : (Less(a, b) /\ Less(b, c)) => Less(a, c)
    /\ \A a, b \in S : SortKey(a) # SortKey(b) => (Less(a, b) \/ Less(b, a))

StoreSprites == {gameSprites[i] : i \in 1..Len(gameSprites)}

\* C23: operator< is a strict total order on the sort keys of the entities
\* of the store: irreflexive, asymmetric, transitive, and total on entities
\* with different keys, entities named "background" included.
C23_StrictTotalOrder == StrictTotalOrderOn(StoreSprites)

\* the same on the entities that are not named "background"
StrictTotalOrderOffBackground ==
    StrictTotalOrderOn({s \in StoreSprites : s.spriteName # "background"})

InsideMap(r) ==
    /\ 0 <= r.x /\ r.x <= MAP_WIDTH - r.w
    /\ 0 <= r.y /\ r.y <= MAP_HEIGHT - r.h

\* C24: after an updateNPCs tick every NPC of the store, moved or not, lies
\* inside the map: 0 <= rect.x <= MAP_WIDTH - rect.w and
\* 0 <= rect.y <= MAP_HEIGHT - rect.h.
C24_NPCInsideMap ==
    [][NPCTick =>
          \A j \in 1..Len(gameSprites') :
              IsNPCSprite(gameSprites'[j]) => InsideMap(gameSprites'[j].rect)]_vars

\* after the first tick of the level with spawns outside the map, the
\* wandering NPC spawned left of and below the map and the stationary NPC
\* spawned above and right of it both sit on the map's edge
C24_Witness ==
    /\ pc = "render" /\ frame = 1 /\ level = MapEdge
    /\ \E i, j \in 1..Len(gameSprites) :
          /\ gameSprites[i].spriteName = "mushroom"
          /\ gameSprites[i].rect.x = 0
          /\ gameSprites[i].rect.y = MAP_HEIGHT - gameSprites[i].rect.h
          /\ gameSprites[j].spriteName = "reyna"
          /\ gameSprites[j].rect.x = MAP_WIDTH - gameSprites[j].rect.w
          /\ gameSprites[j].rect.y = 0

\* the place the follow vector takes the rect of an NPC to
FollowTarget(s, pl, dt) ==
    LET pp == PlayerPos(pl)
        q == CentreDist2x4(s, pl)
        r == s.rect
    IN  ClampedRect([r EXCEPT !.x = r.x + FollowStep(Dx2(s, pp), q, dt),
                              !.y = r.y + FollowStep(Dy2(s, pp), q, dt)])

\* the record the tick reads for an NPC
RecordRead(s) == StateOf(npcStates, RecordKey(s))

\* the tick leaves the wander timer and angle of the NPC's record as read
WanderUntouched(s) ==
    /\ RecordKey(s) \in DOMAIN npcStates'
    /\ npcStates'[RecordKey(s)].wanderTimer = RecordRead(s).wanderTimer
    /\ npcStates'[RecordKey(s)].wanderAngle = RecordRead(s).wanderAngle

\* the wander timer changes only for an NPC that is not Following and whose
\* record is in wandering mode
TimerOnlyWhenWandering ==
    \A i \in 1..Len(gameSprites) :
        LET s == gameSprites[i]
        IN  (IsNPCSprite(s) /\ ~WanderUntouched(s))
                => /\ ~InFollowRange(CentreDist2x4(s, PlayerOf(gameSprites)))
                   /\ RecordRead(s).isWandering
                   /\ s.spriteName # "reyna"

\* C25 (as stated): on a tick where an NPC is Following (5 < distance < 60)
\* it is moved by the follow vector only and its wander timer and angle are
\* unchanged; the wander timer advances only for an NPC that is not Following
\* and is in wandering mode.
C25_FollowMovesEveryNPC ==
    [][NPCTick =>
          /\ \A i \in 1..Len(gameSprites) :
                LET s == gameSprites[i]
                IN  (IsNPCSprite(s) /\ InFollowRange(CentreDist2x4(s, PlayerOf(gameSprites))))
                        => /\ WanderUntouched(s)
                           /\ \E j \in 1..Len(gameSprites') :
                                 /\ gameSprites'[j].spriteName = s.spriteName
                                 /\ gameSprites'[j].rect
                                       = FollowTarget(s, PlayerOf(gameSprites), deltaTime)
          /\ TimerOnlyWhenWandering]_vars

\* C25 (amended): on a tick where an NPC is Following the wander branch is
\* not taken: its wander timer and angle are unchanged, and it is moved by
\* the follow vector only, except the stationary type "reyna", which the
\* follow vector does not move; the wander timer advances only for an NPC
\* that is not Following and is in wandering mode.
C25_FollowExcludesWander ==
    [][NPCTick =>
          /\ \A i \in 1..Len(gameSprites) :
                LET s == gameSprites[i]
                    target == IF s.spriteName = "reyna" THEN ClampedRect(s.rect)
                              ELSE FollowTarget(s, PlayerOf(gameSprites), deltaTime)
                IN  (IsNPCSprite(s) /\ InFollowRange(CentreDist2x4(s, PlayerOf(gameSprites))))
                        => /\ WanderUntouched(s)
                           /\ \E j \in 1..Len(gameSprites') :
                                 /\ gameSprites'[j].spriteName = s.spriteName
                                 /\ gameSprites'[j].rect = target
          /\ TimerOnlyWhenWandering]_vars

\* a mushroom that was Following has left the place its record is keyed by
\* with its wander timer untouched, and a "reyna" that was Following stands
\* where its record is keyed
C25_Witness ==
    /\ pc = "render" /\ HasPlayer(gameSprites) /\ deltaTime = 1000
    /\ \E k \in DOMAIN npcStates :
          /\ k[1] = "mushroom" /\ npcStates[k].isFollowing
          /\ npcStates[k].wanderTimer = 0
          /\ \A i \in 1..Len(gameSprites) : RecordKey(gameSprites[i]) # k
    /\ \E k \in DOMAIN npcStates :
          /\ k[1] = "reyna" /\ npcStates[k].isFollowing
          /\ \E i \in 1..Len(gameSprites) : RecordKey(gameSprites[i]) = k

\* clamp(centre - V / 2, 0, world - V) with V = screen / globalScale
CameraFor(centre, screen, world) ==
    LET v == (screen * ScaleUnit) \div globalScale
    IN  Max2(0, Min2(world - v, centre - v \div 2))

\* C26: at every render pass with a player in the store, the camera offset
\* is the one derived from the player's current position and the current
\* scale, also on the frame in which a quit event is received.
C26_CameraCurrent ==
    (pc = "render" /\ HasPlayer(gameSprites))
        => LET r == PlayerOf(gameSprites).rect
           IN  /\ -backgroundOffset.x = CameraFor(r.x + r.w \div 2, SCREEN_WIDTH, MAP_WIDTH)
               /\ -backgroundOffset.y = CameraFor(r.y + r.h \div 2, SCREEN_HEIGHT, MAP_HEIGHT)

\* the same on the frames whose handleEvents call has returned true
CameraCurrentWhileRunning == running => C26_CameraCurrent

\* C27: after a player tick the animation and the mirror flag are determined
\* by (a movement key is held, facing): the walk animation of the facing iff
\* one of the four movement keys is held, also when opposite keys cancel,
\* otherwise its idle animation; NW shows the NE and SW the SE animation; and
\* facingLeft is true iff the facing is NW or SW.  The facing of the tick is
\* the remembered one: set on a tick with a key held, used on a tick without.
C27_AnimationFromKeysAndFacing ==
    [][PlayerTick =>
          LET new == PlayerOf(gameSprites')
              f == g_playerFacing'
              held == keyState'.a \/ keyState'.d \/ keyState'.w \/ keyState'.s
          IN  /\ new.isMoving = held
              /\ ShowsAnimation(new, IF held THEN WalkAnimationOf(f) ELSE IdleAnimationOf(f))
              /\ SelectedAnimation = (IF held THEN WalkAnimationOf(f) ELSE IdleAnimationOf(f))
              /\ new.facingLeft = (f \in {"NW", "SW"})]_vars

\* left and right are held together: the player has not moved from its spawn
\* and shows a walk animation
C27_Witness ==
    /\ PlayerTicked /\ frame = 1 /\ level = MapMeadow
    /\ keyState.a /\ keyState.d /\ ~keyState.w /\ ~keyState.s
    /\ PlayerOf(gameSprites).rect.x = 0 /\ PlayerOf(gameSprites).rect.y = 100
    /\ PlayerOf(gameSprites).isMoving
    /\ PlayerOf(gameSprites).currentAnimName = "aaronWalkSE"
    /\ ~PlayerOf(gameSprites).facingLeft

\* C28 (as stated): once handleEvents has returned false, the next thing
\* that happens is cleanup: neither updateNPCs nor render runs, the store and
\* the NPC records stay as they are and nothing is drawn.
C28_QuitSkipsRestOfFrame ==
    [][(~running /\ pc \notin {"cleanup", "done"})
          => /\ pc' = "cleanup"
             /\ UNCHANGED <<gameSprites, npcStates, drawn>>]_vars

\* C28 (amended): once handleEvents has returned false, the frame is
\* completed (updateNPCs, which may move NPCs, then render, which draws the
\* whole store) and the loop then exits to cleanup: handleEvents is not called
\* again and the flag does not return to true.
C28_QuitEndsAfterFrame ==
    [][~running
          => /\ ~running'
             /\ pc # "handleEvents" /\ pc' # "handleEvents"
             /\ pc = "updateNPCs" => pc' = "render"
             /\ pc = "render" => (pc' = "cleanup" /\ Len(drawn') = Len(gameSprites))]_vars

\* a quit event has ended the loop in the first frame, and that frame has
\* still moved an NPC record into the table and drawn the store
C28_Witness ==
    /\ pc = "cleanup" /\ frame = 1 /\ ~running /\ ~keyState.esc
    /\ HasPlayer(gameSprites)
    /\ \E k \in DOMAIN npcStates : k[1] = "mushroom"
    /\ Len(drawn) = Len(gameSprites) /\ Len(drawn) > 0

\* frame and accumulator of an NPC after one animation step of length dt
OneTickAnimation(s, dt) ==
    IF s.currentAnimName \in DOMAIN animationMap
    THEN LET A == animationMap[s.currentAnimName]
             sum == F32Sum(s.animAccumulator, dt)
         IN  IF sum >= FrameDelaySeconds(A.frameDelay)
             THEN <<(s.currentFrame + 1) % A.frameCount, 0>>
             ELSE <<s.currentFrame, sum>>
    ELSE <<s.currentFrame, s.animAccumulator>>

NonNPCs(S) == {S[i] : i \in {j \in 1..Len(S) : ~IsNPCSprite(S[j])}}

NPCs(S) == {S[i] : i \in {j \in 1..Len(S) : IsNPCSprite(S[j])}}

\* C29: updateNPCs changes only NPC entities: the player, the background
\* and every non-animated entity are in the store with the same field values
\* after the call; and each NPC is updated once: every NPC of the store after
\* the call shows one animation step of an NPC before the call, and the call
\* writes one record per NPC, keyed by its position before the call.
C29_OnlyNPCsOnce ==
    [][NPCTick =>
          /\ NonNPCs(gameSprites') = NonNPCs(gameSprites)
          /\ Cardinality(NPCs(gameSprites')) <= Cardinality(NPCs(gameSprites))
          /\ \A t \in NPCs(gameSprites') :
                \E s \in NPCs(gameSprites) :
                    /\ s.spriteName = t.spriteName
                    /\ <<t.currentFrame, t.animAccumulator>> = OneTickAnimation(s, deltaTime)
          /\ DOMAIN npcStates'
                = DOMAIN npcStates \cup {RecordKey(s) : s \in NPCs(gameSprites)}]_vars

\* the mushroom spawned at (40, 100) has followed the player down and to the
\* left, which moves it to a later place of the store, and shows one step of
\* its animation; the player is where it was
C29_Witness ==
    /\ pc = "render" /\ frame = 1 /\ deltaTime = 1000 /\ level = MapMeadow
    /\ ~MovementKeyHeld /\ PlayerOf(gameSprites).rect = Rect(0, 100, 16, 24)
    /\ <<"mushroom", 40, 100>> \in DOMAIN npcStates
    /\ npcStates[<<"mushroom", 40, 100>>].isFollowing
    /\ \A i \in 1..Len(gameSprites) : RecordKey(gameSprites[i]) # <<"mushroom", 40, 100>>
    /\ \E i \in 1..Len(gameSprites) :
          /\ gameSprites[i].spriteName = "mushroom"
          /\ gameSprites[i].rect.x < 40 /\ gameSprites[i].rect.x > 0
          /\ gameSprites[i].rect.y > 100
          /\ gameSprites[i].currentFrame = 1
          /\ gameSprites[i].animAccumulator = 0

\* C30: every animated entity whose animation name is in the animation
\* table has 0 <= currentFrame < frame count of that animation and shows
\* frame currentFrame of it, in every reachable state.
C30_FrameInRangeAndShown ==
    \A i \in 1..Len(gameSprites) :
        LET s == gameSprites[i]
        IN  (s.isAnimated /\ s.currentAnimName \in DOMAIN animationMap)
                => /\ 0 <= s.currentFrame
                   /\ s.currentFrame < animationMap[s.currentAnimName].frameCount
                   /\ s.currentTexture = [img |-> s.currentAnimName, frame |-> s.currentFrame]

\* in the second frame the player, who switched to a walk animation in the
\* first, shows its third image, and a mushroom has wrapped around to its
\* first image
C30_Witness ==
    /\ pc = "render" /\ frame = 2 /\ HasPlayer(gameSprites)
    /\ PlayerOf(gameSprites).currentAnimName = "aaronWalkSE"
    /\ PlayerOf(gameSprites).currentFrame = 2
    /\ PlayerOf(gameSprites).currentTexture = [img |-> "aaronWalkSE", frame |-> 2]
    /\ \E i \in 1..Len(gameSprites) :
          /\ gameSprites[i].spriteName = "mushroom"
          /\ gameSprites[i].currentFrame = 0
          /\ gameSprites[i].animAccumulator = 0
          /\ gameSprites[i].currentTexture = [img |-> "mushroomHop", frame |-> 0]

====
